---- MODULE Spec2Model ----
(***************************************************************************)
(* A model of run.py: the declaration of experiments (group, add), the     *)
(* registry of runs, and run(), which hands the runs of one name after the *)
(* other to a pool of worker processes that execute the commands and write *)
(* their output into shared files under a lock file.                       *)
(***************************************************************************)
EXTENDS Naturals, Integers, Sequences, FiniteSets, TLC

(***************************************************************************)
(* Python values.  A string is a sequence of atoms: literal text, or a      *)
(* wildcard [[key]].  Literal text holds no brackets, adjacent literals are *)
(* merged and empty literals dropped, so that two strings are equal exactly *)
(* when their atom sequences are.                                           *)
(***************************************************************************)
Lit(s) == [t |-> "lit", v |-> s]

Key(k) == [t |-> "key", v |-> k]

RECURSIVE Norm(_)
Norm(s) ==
    IF Len(s) = 0 THEN <<>>
    ELSE IF s[1].t = "lit" /\ s[1].v = "" THEN Norm(Tail(s))
    ELSE IF Len(s) >= 2 /\ s[1].t = "lit" /\ s[2].t = "lit"
         THEN Norm(<<Lit(s[1].v \o s[2].v)>> \o Tail(Tail(s)))
    ELSE <<s[1]>> \o Norm(Tail(s))

\* the text of a string, wildcards written out
RECURSIVE Render(_)
Render(s) ==
    IF Len(s) = 0 THEN ""
    ELSE (IF s[1].t = "lit" THEN s[1].v ELSE "[[" \o s[1].v \o "]]") \o Render(Tail(s))

None == <<>>

Some(x) == <<x>>

IntV(n) == [ty |-> "int", n |-> n]

StrV(s) == [ty |-> "str", s |-> Norm(s)]

\* a callable blob: f names the function
FnV(f) == [ty |-> "fn", f |-> f]

ListV(l) == [ty |-> "list", l |-> l]

DigitChars == <<"0", "1", "2", "3", "4", "5", "6", "7", "8", "9">>

RECURSIVE Digits(_)
Digits(n) == IF n < 10 THEN DigitChars[n + 1] ELSE Digits(n \div 10) \o DigitChars[(n % 10) + 1]

\* str(v), as atoms
PyStr(v) ==
    CASE v.ty = "int" -> <<Lit(Digits(v.n))>>
      [] v.ty = "str" -> v.s
      [] OTHER -> <<Lit("<" \o v.ty \o ">")>>

(***************************************************************************)
(* Python dicts keep insertion order: a sequence of [k, v] entries with    *)
(* distinct keys.                                                           *)
(***************************************************************************)
DictKeys(d) == {d[i].k : i \in DOMAIN d}

DictHas(d, key) == key \in DictKeys(d)

DictGet(d, key) == d[CHOOSE i \in DOMAIN d : d[i].k = key].v

DictSet(d, key, val) ==
    IF DictHas(d, key)
    THEN [i \in DOMAIN d |-> IF d[i].k = key THEN [k |-> key, v |-> val] ELSE d[i]]
    ELSE Append(d, [k |-> key, v |-> val])

(***************************************************************************)
(* deblob                                                                   *)
(***************************************************************************)
\* the keys of the wildcards of a string, in order of appearance
RECURSIVE FindKeys(_)
FindKeys(s) ==
    IF Len(s) = 0 THEN <<>>
    ELSE (IF s[1].t = "key" THEN <<s[1].v>> ELSE <<>>) \o FindKeys(Tail(s))

\* str.replace("[[key]]", new)
RECURSIVE ReplaceRaw(_, _, _)
ReplaceRaw(s, key, new) ==
    IF Len(s) = 0 THEN <<>>
    ELSE (IF s[1] = Key(key) THEN new ELSE <<s[1]>>) \o ReplaceRaw(Tail(s), key, new)

Replace(s, key, new) == Norm(ReplaceRaw(s, key, new))

\* the functions used as blobs: what each returns for args
CallBlob(f, args) ==
    CASE f = "first" -> IF Len(args) > 0 THEN args[1].v ELSE StrV(<<>>)
      [] f = "last" -> IF Len(args) > 0 THEN args[Len(args)].v ELSE StrV(<<>>)
      [] f = "timeouts" ->
            IF DictHas(args, "stdout") /\ DictGet(args, "stdout") # StrV(<<>>)
            THEN StrV(<<Lit("sleeping "), Key("time"), Lit("s -> "), Key("stdout")>>)
            ELSE StrV(<<Lit("sleeping "), Key("time"), Lit("s -> timeout")>>)
      [] OTHER -> StrV(<<Lit(f)>>)

\* the loop over the keys: [st, s, warn]; st is "TypeError" when a present
\* key's value is no string (str.replace refuses it)
RECURSIVE SubstKeys(_, _, _, _)
SubstKeys(keys, result, args, warn) ==
    IF Len(keys) = 0 THEN [st |-> "ok", s |-> result, warn |-> warn]
    ELSE IF ~DictHas(args, keys[1])
         THEN SubstKeys(Tail(keys), result, args, Append(warn, keys[1]))
    ELSE IF DictGet(args, keys[1]).ty # "str"
         THEN [st |-> "TypeError", s |-> result, warn |-> warn]
    ELSE SubstKeys(Tail(keys), Replace(result, keys[1], DictGet(args, keys[1]).s), args, warn)

\* blob is None or Some(value)
deblob(blob, args) ==
    IF blob = None THEN [st |-> "none", s |-> <<>>, warn |-> <<>>]
    ELSE LET called == IF blob[1].ty = "fn" THEN CallBlob(blob[1].f, args) ELSE blob[1]
             text   == PyStr(called)
         IN  SubstKeys(FindKeys(text), text, args, <<>>)

\* a deblobbed field of a run: None, or the text
Field(r) == IF r.st = "none" THEN None ELSE Some(Render(r.s))

(***************************************************************************)
(* The combinations of add(): every entry of arguments_descr made a list,  *)
(* and the product of the lists, last key varying fastest.                  *)
(***************************************************************************)
AsList(v) == IF v.ty = "list" THEN v.l ELSE <<v>>

\* the product with the first key varying fastest
RECURSIVE ProductFirstFastest(_)
ProductFirstFastest(lists) ==
    IF Len(lists) = 0 THEN << <<>> >>
    ELSE LET n    == Len(lists)
             rest == ProductFirstFastest(SubSeq(lists, 1, n - 1))
             RECURSIVE Over(_)
             Over(xs) ==
                 IF Len(xs) = 0 THEN <<>>
                 ELSE [j \in DOMAIN rest |-> Append(rest[j], xs[1])] \o Over(Tail(xs))
         IN  Over(lists[n])

RECURSIVE Product(_)
Product(lists) ==
    IF Len(lists) = 0 THEN << <<>> >>
    ELSE LET rest == Product(Tail(lists))
             RECURSIVE Over(_)
             Over(xs) ==
                 IF Len(xs) = 0 THEN <<>>
                 ELSE [j \in DOMAIN rest |-> <<xs[1]>> \o rest[j]] \o Over(Tail(xs))
         IN  Over(lists[1])

\* arguments_set: one dict per combination, the keys in the order of arguments_descr
ArgumentsSet(arguments_descr) ==
    LET lists == [i \in DOMAIN arguments_descr |-> AsList(arguments_descr[i].v)]
        prod  == Product(lists)
    IN  [c \in DOMAIN prod |->
            [i \in DOMAIN arguments_descr |-> [k |-> arguments_descr[i].k, v |-> prod[c][i]]]]

\* a combinations_filter that is never asked
FilterPassesAll(f, args) == TRUE

\* the combinations_filter functions; "ints" is one that needs the raw values
\* (lambda args: args["a"] + args["b"] + args["c"] == 4)
CombinationsFilter(f, args) ==
    CASE f = "all" -> TRUE
      [] f = "none" -> FALSE
      [] f = "ints" -> \A i \in DOMAIN args : args[i].v.ty = "int"
      [] OTHER -> TRUE

\* for key, val in args.items(): args[key] = deblob(val, args)
\* [st, args, warn]: st is "TypeError" when a deblob raised
RECURSIVE ResolveArgs(_, _, _)
ResolveArgs(args, i, warn) ==
    IF i > Len(args) THEN [st |-> "ok", args |-> args, warn |-> warn]
    ELSE LET r == deblob(Some(args[i].v), args)
         IN  IF r.st = "TypeError"
             THEN [st |-> "TypeError", args |-> args, warn |-> warn \o r.warn]
             ELSE ResolveArgs([args EXCEPT ![i].v = StrV(r.s)], i + 1, warn \o r.warn)

(***************************************************************************)
(* The experiments the script declares, after example.py.  A field is a    *)
(* blob: None or Some(value).                                               *)
(***************************************************************************)
Text(x) == Some(StrV(<<Lit(x)>>))

Experiment(name, command, arguments_descr, creates_file, stdout_file, header_string, header_command, allowed_return_codes) ==
    [name |-> name, command |-> command, arguments_descr |-> arguments_descr,
     creates_file |-> creates_file, stdout_file |-> stdout_file,
     stdout_mod |-> "identity", stdout_res |-> None,
     header_string |-> header_string, header_command |-> header_command,
     header_mod |-> "identity", allowed_return_codes |-> allowed_return_codes,
     combinations_filter |-> "all"]

\* run.add("algo", "algo [[input]]", {"input": [...]}, stdout_file="output.csv",
\*         header_command="algo --only-header")
ExpAlgo ==
    Experiment(Text("algo"), Some(StrV(<<Lit("algo "), Key("input")>>)),
               << [k |-> "input", v |-> ListV(<<StrV(<<Lit("file1")>>), StrV(<<Lit("file2")>>)>>)] >>,
               None, Text("output.csv"), None, Text("algo --only-header"), <<0>>)

\* the same name and file, one more input, no header, any return code
ExpAlgoPlain ==
    Experiment(Text("algo"), Some(StrV(<<Lit("algo "), Key("input")>>)),
               << [k |-> "input", v |-> StrV(<<Lit("file3")>>)] >>,
               None, Text("output.csv"), None, None, <<>>)

\* run.add("sum", "echo $(([[a]] + [[b]]))", {...}, stdout_file="output/sums.txt")
ExpSum ==
    Experiment(Text("sum"), Some(StrV(<<Lit("echo $(("), Key("a"), Lit(" + "), Key("b"), Lit("))")>>)),
               << [k |-> "a", v |-> ListV(<<IntV(1), IntV(2)>>)], [k |-> "b", v |-> IntV(3)] >>,
               None, Text("output/sums.txt"), None, None, <<0>>)

\* run.add("create_files", "touch [[file]]", {..., "file": "output/a=[[a]].txt"},
\*         creates_file="[[file]]")
ExpCreateFiles ==
    Experiment(Text("create_files"), Some(StrV(<<Lit("touch "), Key("file")>>)),
               << [k |-> "a", v |-> IntV(1)],
                  [k |-> "file", v |-> StrV(<<Lit("output/a="), Key("a"), Lit(".txt")>>)] >>,
               Some(StrV(<<Key("file")>>)), None, None, None, <<0>>)

\* run.add("timeouts", "timeout 2 sleep [[time]] && echo waking up", {"time": ...},
\*         stdout_file="output/timeouts.txt", allowed_return_codes=[0, 124]),
\* here with a header line
ExpTimeouts ==
    Experiment(Text("timeouts"), Some(StrV(<<Lit("timeout 2 sleep "), Key("time")>>)),
               << [k |-> "time", v |-> IntV(4)] >>,
               None, Text("output.csv"), Text("time"), None, <<0, 124>>)

\* run.add(..., combinations_filter=...) with a filter no combination passes
ExpSumFiltered == [ExpSum EXCEPT !.combinations_filter = "none"]

Experiments == {ExpAlgo, ExpAlgoPlain, ExpSum, ExpSumFiltered, ExpCreateFiles, ExpTimeouts}

GroupNames == {"headers", "ungrouped"}

\* the command lines the script is started with
ArgvChoices == {{"algo", "sum", "create_files", "timeouts"}, {"headers"}, {"headers", "dry_run"}}

\* what is on disk when the script starts
InitialFiles == {{}, {"output.csv"}}

\* the numbers of cores the script asks for
CoreChoices == {2}

\* the exit codes a command ends with
ReturnCodes == {0, 124}

\* upper bounds of the model: calls of add(), calls of run(), interrupts
MaxAdds == 2

MaxRunCalls == 2

MaxInterrupts == 1

\* upper bound on the runs add() makes between the start of the script and its end
MaxRuns == 3

VARIABLES
    argv,            \* sys.argv
    cores,           \* _cores
    state_group,     \* _state.group
    groups,          \* _state.groups: dict group -> list of names
    runs_by_name,    \* _state.runs_by_name: dict name -> list of runs
    counts_by_name,  \* _state.counts_by_name: dict name -> <<todo, skipped>>
    main,            \* where the script is: "declare", "loop", "wait"
    pos,             \* run(): position in runs_by_name.items()
    tasks,           \* the tasks handed to the pool, in order; each a worker's _run_run(run)
    files,           \* the files on disk: path -> lines
    locks,           \* the lock files on disk: path of the locked file -> task holding it
    warnings,        \* what _print_warning printed
    printed,         \* what _run_dry printed
    declared,        \* history: the runs add() made since the last reset
    calls,           \* history: the calls of add() and run(), the runs made, the interrupts
    input,           \* the call of a function looked at on its own, and its arguments
    output           \* what that call has computed so far

vars == <<input, output, argv, cores, state_group, groups, runs_by_name, counts_by_name, main, pos,
          tasks, files, locks, warnings, printed, declared, calls>>

registry == <<state_group, groups, runs_by_name, counts_by_name>>

\* _State.__init__
NewGroup == "ungrouped"

NewGroups == << [k |-> NewGroup, v |-> <<>>] >>

DefaultCores == 4

Init ==
    /\ input = [fn |-> "none"]
    /\ output = <<>>
    /\ argv \in ArgvChoices
    /\ cores = DefaultCores
    /\ state_group = NewGroup
    /\ groups = NewGroups
    /\ runs_by_name = <<>>
    /\ counts_by_name = <<>>
    /\ main = "declare"
    /\ pos = 0
    /\ tasks = <<>>
    /\ \E present \in InitialFiles : files = [p \in present |-> <<>>]
    /\ locks = [p \in {} |-> 0]
    /\ warnings = {}
    /\ printed = <<>>
    /\ declared = <<>>
    /\ calls = [adds |-> 0, made |-> 0, runs |-> 0, interrupts |-> 0]

isfile(path) == path \in DOMAIN files

(***************************************************************************)
(* Declaration: group(), use_cores(), add()                                *)
(***************************************************************************)
group(group_name) ==
    /\ main = "declare"
    /\ state_group' = group_name
    /\ groups' = IF DictHas(groups, group_name) THEN groups
                 ELSE DictSet(groups, group_name, <<>>)
    /\ UNCHANGED <<input, output, argv, cores, runs_by_name, counts_by_name, main, pos, tasks, files,
                   locks, warnings, printed, declared, calls>>

use_cores(nr_cores) ==
    /\ main = "declare"
    /\ cores' = nr_cores
    /\ UNCHANGED <<input, output, argv, registry, main, pos, tasks, files, locks, warnings, printed,
                   declared, calls>>

InSeq(x, seq) == \E i \in DOMAIN seq : seq[i] = x

\* _is_selected that looks at the name only
SelectedByName(name, grps) == name \in argv

\* _is_selected that looks at the name and the active group only
SelectedByActiveGroup(name, grps) ==
    \/ name \in argv
    \/ state_group \in argv /\ InSeq(name, DictGet(grps, state_group))

\* _is_selected, with the groups as they are
_is_selected(name, grps) ==
    \/ name \in argv
    \/ \E i \in DOMAIN grps : grps[i].k \in argv /\ InSeq(name, grps[i].v)

\* _is_skipped that never skips
NeverSkipped(run) == FALSE

\* _is_skipped
_is_skipped(run) ==
    \/ run.creates_file # None /\ isfile(run.creates_file[1])
    \/ run.stdout_file # None /\ isfile(run.stdout_file[1])

\* _add_run that counts the selected runs only
AddRunCountsSelected(run, reg) ==
    LET runs0   == IF DictHas(reg.runs_by_name, run.name) THEN reg.runs_by_name
                   ELSE DictSet(reg.runs_by_name, run.name, <<>>)
        counts0 == IF DictHas(reg.runs_by_name, run.name) THEN reg.counts_by_name
                   ELSE DictSet(reg.counts_by_name, run.name, <<0, 0>>)
        count   == DictGet(counts0, run.name)
        counts1 == IF ~run.is_selected THEN counts0
                   ELSE IF _is_skipped(run)
                   THEN DictSet(counts0, run.name, <<count[1], count[2] + 1>>)
                   ELSE DictSet(counts0, run.name, <<count[1] + 1, count[2]>>)
        runs1   == IF run.is_selected /\ ~_is_skipped(run)
                   THEN DictSet(runs0, run.name, Append(DictGet(runs0, run.name), run))
                   ELSE runs0
    IN  [reg EXCEPT !.runs_by_name = runs1, !.counts_by_name = counts1]

\* _add_run on the registry reg = [groups, runs_by_name, counts_by_name]
_add_run(run, reg) ==
    LET runs0   == IF DictHas(reg.runs_by_name, run.name) THEN reg.runs_by_name
                   ELSE DictSet(reg.runs_by_name, run.name, <<>>)
        counts0 == IF DictHas(reg.runs_by_name, run.name) THEN reg.counts_by_name
                   ELSE DictSet(reg.counts_by_name, run.name, <<0, 0>>)
        count   == DictGet(counts0, run.name)
        counts1 == IF _is_skipped(run)
                   THEN DictSet(counts0, run.name, <<count[1], count[2] + 1>>)
                   ELSE DictSet(counts0, run.name, <<count[1] + 1, count[2]>>)
        runs1   == IF run.is_selected /\ ~_is_skipped(run)
                   THEN DictSet(runs0, run.name, Append(DictGet(runs0, run.name), run))
                   ELSE runs0
    IN  [reg EXCEPT !.runs_by_name = runs1, !.counts_by_name = counts1]

\* the body of add()'s loop for one combination that passed the filter, its
\* arguments resolved
AddOne(exp, args, reg) ==
    LET real_name == Render(deblob(exp.name, args).s)
        names     == DictGet(reg.groups, state_group)
        groups1   == IF InSeq(real_name, names) THEN reg.groups
                     ELSE DictSet(reg.groups, state_group, Append(names, real_name))
        run       == [name |-> real_name,
                      command |-> Render(deblob(exp.command, args).s),
                      args |-> args,
                      creates_file |-> Field(deblob(exp.creates_file, args)),
                      stdout_file |-> Field(deblob(exp.stdout_file, args)),
                      stdout_mod |-> exp.stdout_mod,
                      stdout_res |-> exp.stdout_res,
                      header_string |-> Field(deblob(exp.header_string, args)),
                      header_command |-> Field(deblob(exp.header_command, args)),
                      header_mod |-> exp.header_mod,
                      allowed_return_codes |-> exp.allowed_return_codes,
                      is_selected |-> _is_selected(real_name, groups1)]
        reg1      == _add_run(run, [reg EXCEPT !.groups = groups1])
    IN  [reg1 EXCEPT !.declared =
            Append(@, [run |-> run, group |-> state_group,
                       member_of |-> {groups1[i].k : i \in {j \in DOMAIN groups1 :
                                                              InSeq(real_name, groups1[j].v)}},
                       on_disk |-> DOMAIN files])]

\* for args in arguments_set: ...; a TypeError raised by a deblob ends the script
RECURSIVE AddLoop(_, _, _, _)
AddLoop(exp, arguments_set, c, reg) ==
    IF c > Len(arguments_set) THEN reg
    ELSE IF ~CombinationsFilter(exp.combinations_filter, arguments_set[c])
         THEN AddLoop(exp, arguments_set, c + 1, reg)
    ELSE LET resolved == ResolveArgs(arguments_set[c], 1, <<>>)
         IN  IF resolved.st = "TypeError" THEN [reg EXCEPT !.raised = TRUE]
             ELSE AddLoop(exp, arguments_set, c + 1, AddOne(exp, resolved.args, reg))

add(exp) ==
    /\ main = "declare"
    /\ calls.adds < MaxAdds
    /\ calls.made + Len(ArgumentsSet(exp.arguments_descr)) <= MaxRuns
    /\ LET reg == AddLoop(exp, ArgumentsSet(exp.arguments_descr), 1,
                          [groups |-> groups, runs_by_name |-> runs_by_name,
                           counts_by_name |-> counts_by_name, declared |-> declared,
                           raised |-> FALSE])
       IN  /\ groups' = reg.groups
           /\ runs_by_name' = reg.runs_by_name
           /\ counts_by_name' = reg.counts_by_name
           /\ declared' = reg.declared
           /\ main' = IF reg.raised THEN "raised" ELSE main
    /\ calls' = [calls EXCEPT !.adds = @ + 1,
                              !.made = @ + Len(ArgumentsSet(exp.arguments_descr))]
    /\ UNCHANGED <<input, output, argv, cores, state_group, pos, tasks, files, locks, warnings, printed>>

(***************************************************************************)
(* run()                                                                    *)
(***************************************************************************)
\* Reset that keeps the lists of runs
ResetKeepsRuns ==
    /\ state_group' = NewGroup
    /\ groups' = NewGroups
    /\ UNCHANGED runs_by_name
    /\ counts_by_name' = <<>>
    /\ declared' = <<>>

\* _state = _State()
Reset ==
    /\ state_group' = NewGroup
    /\ groups' = NewGroups
    /\ runs_by_name' = <<>>
    /\ counts_by_name' = <<>>
    /\ declared' = <<>>

\* _run_dry that stops after the first name
DryCommandsFirstName(by_name, i) ==
    IF Len(by_name) = 0 THEN <<>>
    ELSE [j \in DOMAIN by_name[1].v |-> by_name[1].v[j].command]

\* _run_dry: the commands of every name with runs
RECURSIVE DryCommands(_, _)
DryCommands(by_name, i) ==
    IF i > Len(by_name) THEN <<>>
    ELSE [j \in DOMAIN by_name[i].v |-> by_name[i].v[j].command] \o DryCommands(by_name, i + 1)

\* run(), up to the loop over the names
run ==
    /\ main = "declare"
    /\ calls.runs < MaxRunCalls
    /\ calls' = [calls EXCEPT !.runs = @ + 1]
    /\ IF _is_selected("dry_run", groups)
       THEN /\ printed' = printed \o DryCommands(runs_by_name, 1)
            /\ Reset
            /\ UNCHANGED <<main, pos>>
       ELSE /\ main' = "loop"
            /\ pos' = 1
            /\ UNCHANGED <<printed, registry, declared>>
    /\ UNCHANGED <<input, output, argv, cores, tasks, files, locks, warnings>>

\* a task of the pool: a worker's call _run_run(run)
Task(r) == [run |-> r, call |-> calls.runs, pc |-> "queued", rc |-> 0, header_run |-> FALSE]

\* pool.uimap(_run_run, runs): the runs are queued in the pool, in order
uimap(runs) == tasks \o [j \in DOMAIN runs |-> Task(runs[j])]

\* for name, runs in _state.runs_by_name.items(): the next name, or the end of run()
NextName ==
    /\ main = "loop"
    /\ IF pos > Len(runs_by_name)
       THEN /\ Reset
            /\ main' = "declare"
            /\ pos' = 0
            /\ UNCHANGED tasks
       ELSE IF Len(runs_by_name[pos].v) = 0
       THEN /\ pos' = pos + 1
            /\ UNCHANGED <<main, tasks, registry, declared>>
       ELSE /\ tasks' = uimap(runs_by_name[pos].v)
            /\ main' = "wait"
            /\ UNCHANGED <<pos, registry, declared>>
    /\ UNCHANGED <<input, output, argv, cores, files, locks, warnings, printed, calls>>

\* the tasks of the name run() waits for
Waited(i) ==
    /\ tasks[i].call = calls.runs
    /\ tasks[i].run.name = runs_by_name[pos].k

\* the loop over the results ends: every run of the name is done
Joined ==
    /\ main = "wait"
    /\ \A i \in DOMAIN tasks : Waited(i) => tasks[i].pc = "done"
    /\ main' = "loop"
    /\ pos' = pos + 1
    /\ UNCHANGED <<input, output, argv, cores, registry, tasks, files, locks, warnings, printed, declared,
                   calls>>

\* except KeyboardInterrupt: a warning, and on to the next name
KeyboardInterrupt ==
    /\ main = "wait"
    /\ calls.interrupts < MaxInterrupts
    /\ calls' = [calls EXCEPT !.interrupts = @ + 1]
    /\ warnings' = warnings \cup {[warning |-> "aborted during experiment",
                                   name |-> runs_by_name[pos].k, call |-> calls.runs]}
    /\ main' = "loop"
    /\ pos' = pos + 1
    /\ UNCHANGED <<input, output, argv, cores, registry, tasks, files, locks, printed, declared>>

(***************************************************************************)
(* The workers of the pool: _run_run(run), one step per action              *)
(***************************************************************************)
Busy == {i \in DOMAIN tasks : tasks[i].pc \notin {"queued", "done"}}

\* Start that looks for the files of the run again and drops the run when one is there
StartSkipsExisting(i) ==
    /\ tasks[i].pc = "queued"
    /\ \A j \in 1..(i - 1) : tasks[j].pc # "queued"
    /\ Cardinality(Busy) < cores
    /\ tasks' = [tasks EXCEPT ![i].pc = IF _is_skipped(tasks[i].run) THEN "done" ELSE "execute"]
    /\ UNCHANGED <<input, output, argv, cores, registry, main, pos, files, locks, warnings, printed,
                   declared, calls>>

\* an idle worker takes the oldest queued task
Start(i) ==
    /\ tasks[i].pc = "queued"
    /\ \A j \in 1..(i - 1) : tasks[j].pc # "queued"
    /\ Cardinality(Busy) < cores
    /\ tasks' = [tasks EXCEPT ![i].pc = "execute"]
    /\ UNCHANGED <<input, output, argv, cores, registry, main, pos, files, locks, warnings, printed,
                   declared, calls>>

\* what the command leaves on disk: the file creates_file names, when it succeeds
AfterCommand(r, returncode) ==
    IF r.creates_file # None /\ returncode = 0 /\ ~isfile(r.creates_file[1])
    THEN (r.creates_file[1] :> <<>>) @@ files
    ELSE files

\* the check of the return code without the case of the empty list
UnexpectedAlsoEmpty(r, returncode) == ~InSeq(returncode, r.allowed_return_codes)

\* the check of the return code
Unexpected(r, returncode) ==
    /\ ~InSeq(returncode, r.allowed_return_codes)
    /\ r.allowed_return_codes # <<>>

\* Execute that runs the command again after an unexpected return code
ExecuteRetries(i, returncode) ==
    /\ tasks[i].pc = "execute"
    /\ files' = AfterCommand(tasks[i].run, returncode)
    /\ IF Unexpected(tasks[i].run, returncode)
       THEN /\ warnings' = warnings \cup {[warning |-> "unexpected return code", task |-> i]}
            /\ tasks' = [tasks EXCEPT ![i].rc = returncode]
       ELSE /\ UNCHANGED warnings
            /\ tasks' = [tasks EXCEPT ![i].rc = returncode,
                                      ![i].pc = IF tasks[i].run.stdout_file = None
                                                THEN "done" ELSE "check"]
    /\ UNCHANGED <<input, output, argv, cores, registry, main, pos, locks, printed, declared,
                   calls>>

\* res = _execute(run.command), and the checks up to the file name
Execute(i, returncode) ==
    /\ tasks[i].pc = "execute"
    /\ files' = AfterCommand(tasks[i].run, returncode)
    /\ IF Unexpected(tasks[i].run, returncode)
       THEN /\ warnings' = warnings \cup {[warning |-> "unexpected return code", task |-> i]}
            /\ tasks' = [tasks EXCEPT ![i].pc = "done", ![i].rc = returncode]
       ELSE /\ UNCHANGED warnings
            /\ tasks' = [tasks EXCEPT ![i].rc = returncode,
                                      ![i].pc = IF tasks[i].run.stdout_file = None
                                                THEN "done" ELSE "check"]
    /\ UNCHANGED <<input, output, argv, cores, registry, main, pos, locks, printed, declared, calls>>

filename(i) == tasks[i].run.stdout_file[1]

HasHeader(r) == r.header_command # None \/ r.header_string # None

\* CheckHeader that takes the header without running header_command
CheckHeaderNoCommand(i) ==
    /\ tasks[i].pc = "check"
    /\ IF ~isfile(filename(i)) /\ HasHeader(tasks[i].run)
       THEN tasks' = [tasks EXCEPT ![i].pc = "header_lock"]
       ELSE tasks' = [tasks EXCEPT ![i].pc = "append_lock"]
    /\ UNCHANGED <<input, output, argv, cores, registry, main, pos, files, locks, warnings, printed,
                   declared, calls>>

\* if not os.path.isfile(filename) and (a header is given): the header is made
CheckHeader(i) ==
    /\ tasks[i].pc = "check"
    /\ IF ~isfile(filename(i)) /\ HasHeader(tasks[i].run)
       THEN tasks' = [tasks EXCEPT ![i].pc = "header_lock",
                                   ![i].header_run = (tasks[i].run.header_command # None)]
       ELSE tasks' = [tasks EXCEPT ![i].pc = "append_lock"]
    /\ UNCHANGED <<input, output, argv, cores, registry, main, pos, files, locks, warnings, printed,
                   declared, calls>>

\* Acquire without the test for an existing lock file
AcquireUnchecked(i) == locks' = (filename(i) :> i) @@ locks

\* SoftFileLock(lock).acquire(): the lock file is created when there is none
Acquire(i) ==
    /\ filename(i) \notin DOMAIN locks
    /\ locks' = (filename(i) :> i) @@ locks

\* SoftFileLock.release(): the lock file is removed
Release(i) == locks' = [p \in DOMAIN locks \ {filename(i)} |-> locks[p]]

\* with SoftFileLock(lock):
HeaderLock(i) ==
    /\ tasks[i].pc = "header_lock"
    /\ Acquire(i)
    /\ tasks' = [tasks EXCEPT ![i].pc = "header_check"]
    /\ UNCHANGED <<input, output, argv, cores, registry, main, pos, files, warnings, printed, declared,
                   calls>>

\* HeaderCheck without the second test for the file
HeaderCheckAlways(i) ==
    /\ tasks[i].pc = "header_check"
    /\ files' = (filename(i) :> <<>>) @@ files
    /\ tasks' = [tasks EXCEPT ![i].pc = "header_write"]
    /\ UNCHANGED <<input, output, argv, cores, registry, main, pos, locks, warnings, printed, declared,
                   calls>>

\* HeaderCheck that leaves the with block without releasing when the file is there
HeaderCheckKeepsLock(i) ==
    /\ tasks[i].pc = "header_check"
    /\ IF ~isfile(filename(i))
       THEN /\ files' = (filename(i) :> <<>>) @@ files
            /\ tasks' = [tasks EXCEPT ![i].pc = "header_write"]
       ELSE /\ tasks' = [tasks EXCEPT ![i].pc = "append_lock"]
            /\ UNCHANGED files
    /\ UNCHANGED <<input, output, argv, cores, registry, main, pos, locks, warnings, printed,
                   declared, calls>>

\* if not os.path.isfile(filename): open(filename, "w")
HeaderCheck(i) ==
    /\ tasks[i].pc = "header_check"
    /\ IF ~isfile(filename(i))
       THEN /\ files' = (filename(i) :> <<>>) @@ files
            /\ tasks' = [tasks EXCEPT ![i].pc = "header_write"]
            /\ UNCHANGED locks
       ELSE /\ Release(i)
            /\ tasks' = [tasks EXCEPT ![i].pc = "append_lock"]
            /\ UNCHANGED files
    /\ UNCHANGED <<input, output, argv, cores, registry, main, pos, warnings, printed, declared, calls>>

\* header = run.header_string, or what header_command prints
Header(r) ==
    IF r.header_command # None THEN "$(" \o r.header_command[1] \o ")" ELSE r.header_string[1]

\* HeaderWrite that leaves the new file empty
HeaderWriteNothing(i) ==
    /\ tasks[i].pc = "header_write"
    /\ Release(i)
    /\ tasks' = [tasks EXCEPT ![i].pc = "append_lock"]
    /\ UNCHANGED <<input, output, argv, cores, registry, main, pos, files, warnings, printed, declared,
                   calls>>

\* print(header, file=out, flush=True), and the end of both with blocks
HeaderWrite(i) ==
    /\ tasks[i].pc = "header_write"
    /\ files' = [files EXCEPT ![filename(i)] =
                    Append(@, [kind |-> "header", by |-> i, text |-> Header(tasks[i].run)])]
    /\ Release(i)
    /\ tasks' = [tasks EXCEPT ![i].pc = "append_lock"]
    /\ UNCHANGED <<input, output, argv, cores, registry, main, pos, warnings, printed, declared, calls>>

\* with SoftFileLock(run.stdout_file + ".lock"):
AppendLock(i) ==
    /\ tasks[i].pc = "append_lock"
    /\ Acquire(i)
    /\ tasks' = [tasks EXCEPT ![i].pc = "append_open"]
    /\ UNCHANGED <<input, output, argv, cores, registry, main, pos, files, warnings, printed, declared,
                   calls>>

\* AppendOpen with mode "w"
AppendOpenTruncate(i) ==
    /\ tasks[i].pc = "append_open"
    /\ files' = (filename(i) :> <<>>) @@ files
    /\ tasks' = [tasks EXCEPT ![i].pc = "append_write"]
    /\ UNCHANGED <<input, output, argv, cores, registry, main, pos, locks, warnings, printed, declared,
                   calls>>

\* open(run.stdout_file, "a")
AppendOpen(i) ==
    /\ tasks[i].pc = "append_open"
    /\ files' = IF isfile(filename(i)) THEN files ELSE (filename(i) :> <<>>) @@ files
    /\ tasks' = [tasks EXCEPT ![i].pc = "append_write"]
    /\ UNCHANGED <<input, output, argv, cores, registry, main, pos, locks, warnings, printed, declared,
                   calls>>

\* print(output, file=out, flush=True), and the end of both with blocks
AppendWrite(i) ==
    /\ tasks[i].pc = "append_write"
    /\ files' = [files EXCEPT ![filename(i)] =
                    Append(@, [kind |-> "output", by |-> i, text |-> ""])]
    /\ Release(i)
    /\ tasks' = [tasks EXCEPT ![i].pc = "done"]
    /\ UNCHANGED <<input, output, argv, cores, registry, main, pos, warnings, printed, declared, calls>>

Next ==
    \/ \E group_name \in GroupNames : group(group_name)
    \/ \E nr_cores \in CoreChoices : use_cores(nr_cores)
    \/ \E exp \in Experiments : add(exp)
    \/ run
    \/ NextName
    \/ Joined
    \/ KeyboardInterrupt
    \/ \E i \in DOMAIN tasks : Start(i)
    \/ \E i \in DOMAIN tasks, returncode \in ReturnCodes : Execute(i, returncode)
    \/ \E i \in DOMAIN tasks : CheckHeader(i)
    \/ \E i \in DOMAIN tasks : HeaderLock(i)
    \/ \E i \in DOMAIN tasks : HeaderCheck(i)
    \/ \E i \in DOMAIN tasks : HeaderWrite(i)
    \/ \E i \in DOMAIN tasks : AppendLock(i)
    \/ \E i \in DOMAIN tasks : AppendOpen(i)
    \/ \E i \in DOMAIN tasks : AppendWrite(i)

Spec == Init /\ [][Next]_vars

\* the next step of the worker process that has task i
WorkerStep(i) ==
    /\ i \in DOMAIN tasks
    /\ \/ Start(i)
       \/ \E returncode \in ReturnCodes : Execute(i, returncode)
       \/ CheckHeader(i)
       \/ HeaderLock(i)
       \/ HeaderCheck(i)
       \/ HeaderWrite(i)
       \/ AppendLock(i)
       \/ AppendOpen(i)
       \/ AppendWrite(i)

\* the processes are scheduled: run() goes on with its loop when it can, and so
\* does every worker with its task (a command it executes ends); the calls the
\* script makes and the interrupts are up to the script and the user
Fairness ==
    /\ WF_vars(NextName)
    /\ WF_vars(Joined)
    /\ \A i \in 1..MaxRuns : WF_vars(WorkerStep(i))

\* the script for the runs under fair scheduling: every name on the command
\* line, nothing on disk, the experiments that write output.csv
FairInit ==
    /\ Init
    /\ argv = {"algo", "sum", "create_files", "timeouts"}
    /\ DOMAIN files = {}

FairExperiments == {ExpAlgo, ExpAlgoPlain, ExpTimeouts}

FairNext ==
    \/ \E nr_cores \in CoreChoices : use_cores(nr_cores)
    \/ \E exp \in FairExperiments : add(exp)
    \/ run
    \/ NextName
    \/ Joined
    \/ KeyboardInterrupt
    \/ \E i \in DOMAIN tasks : Start(i)
    \/ \E i \in DOMAIN tasks, returncode \in ReturnCodes : Execute(i, returncode)
    \/ \E i \in DOMAIN tasks : CheckHeader(i)
    \/ \E i \in DOMAIN tasks : HeaderLock(i)
    \/ \E i \in DOMAIN tasks : HeaderCheck(i)
    \/ \E i \in DOMAIN tasks : HeaderWrite(i)
    \/ \E i \in DOMAIN tasks : AppendLock(i)
    \/ \E i \in DOMAIN tasks : AppendOpen(i)
    \/ \E i \in DOMAIN tasks : AppendWrite(i)

FairSpec == FairInit /\ [][FairNext]_vars /\ Fairness

(***************************************************************************)
(* The functions of add() and _run_run looked at on their own: the         *)
(* combinations, deblob, the resolution of one combination key by key, and  *)
(* the steps from the output of a command to the line that is appended.    *)
(***************************************************************************)
program == <<argv, cores, state_group, groups, runs_by_name, counts_by_name, main, pos,
             tasks, files, locks, warnings, printed, declared, calls>>

\* upper bound on the length of a list in arguments_descr
MaxListLen == 2

KeyOrders == {<<>>, <<"a">>, <<"a", "b">>, <<"b", "a">>, <<"a", "b", "c">>}

\* the dicts with the keys ks, in this order, and values of V
Assignments(ks, V) == {[i \in DOMAIN ks |-> [k |-> ks[i], v |-> vs[i]]] : vs \in [DOMAIN ks -> V]}

\* the values of arguments_descr: a number, or a list of numbers
DescrValues ==
    {IntV(1)} \cup
    {ListV([j \in DOMAIN l |-> IntV(l[j])]) :
        l \in UNION {[1..n -> {1, 2}] : n \in 0..MaxListLen}}

\* the raw values of one combination: a number, texts with and without
\* wildcards, a function that returns the value of the last key
RawValues ==
    {IntV(1), StrV(<<Lit("x")>>), StrV(<<Key("a")>>), StrV(<<Key("b")>>),
     StrV(<<Key("b"), Lit("+"), Key("c")>>), FnV("last")}

\* the blobs: None, the raw values, a wildcard twice, a wildcard without value
Blobs ==
    {None} \cup {Some(v) : v \in RawValues} \cup
    {Some(StrV(<<Key("a"), Key("a")>>)),
     Some(StrV(<<Lit("<"), Key("a"), Lit("|"), Key("d"), Lit(">")>>)),
     Some(FnV("first"))}

FnInit ==
    /\ input = [fn |-> "none"]
    /\ output = <<>>
    /\ argv = {}
    /\ cores = DefaultCores
    /\ state_group = NewGroup
    /\ groups = NewGroups
    /\ runs_by_name = <<>>
    /\ counts_by_name = <<>>
    /\ main = "declare"
    /\ pos = 0
    /\ tasks = <<>>
    /\ files = [p \in {} |-> <<>>]
    /\ locks = [p \in {} |-> 0]
    /\ warnings = {}
    /\ printed = <<>>
    /\ declared = <<>>
    /\ calls = [adds |-> 0, made |-> 0, runs |-> 0, interrupts |-> 0]

\* arguments_set of add(..., arguments_descr, ...)
Expand(arguments_descr) ==
    /\ input.fn = "none"
    /\ input' = [fn |-> "product", arguments_descr |-> arguments_descr]
    /\ output' = ArgumentsSet(arguments_descr)
    /\ UNCHANGED program

\* deblob(blob, args)
Deblob(blob, args) ==
    /\ input.fn = "none"
    /\ input' = [fn |-> "deblob", blob |-> blob, args |-> args]
    /\ output' = deblob(blob, args)
    /\ UNCHANGED program

\* for args in arguments_set: if not combinations_filter(args): continue
BeginCombination(args, combinations_filter) ==
    /\ input.fn = "none"
    /\ input' = [fn |-> "resolve", args |-> args, combinations_filter |-> combinations_filter]
    /\ output' = [args |-> args, i |-> 1, st |-> "ok", saw |-> args,
                  passed |-> CombinationsFilter(combinations_filter, args)]
    /\ UNCHANGED program

\* ResolveKey that resolves every key against the raw combination
ResolveKeyFromRaw ==
    /\ input.fn = "resolve"
    /\ output.passed /\ output.st = "ok" /\ output.i <= Len(output.args)
    /\ LET r == deblob(Some(input.args[output.i].v), input.args)
       IN  output' = IF r.st = "TypeError" THEN [output EXCEPT !.st = "TypeError"]
                     ELSE [output EXCEPT !.args[output.i].v = StrV(r.s), !.i = @ + 1]
    /\ UNCHANGED <<input, program>>

\* args[key] = deblob(val, args), for the next key of args.items()
ResolveKey ==
    /\ input.fn = "resolve"
    /\ output.passed /\ output.st = "ok" /\ output.i <= Len(output.args)
    /\ LET r == deblob(Some(output.args[output.i].v), output.args)
       IN  output' = IF r.st = "TypeError" THEN [output EXCEPT !.st = "TypeError"]
                     ELSE [output EXCEPT !.args[output.i].v = StrV(r.s), !.i = @ + 1]
    /\ UNCHANGED <<input, program>>

\* white space in the output of a command
IsSpace(atom) == atom \in {Lit(" "), Lit("\n")}

RECURSIVE LStrip(_)
LStrip(s) == IF Len(s) > 0 /\ IsSpace(s[1]) THEN LStrip(Tail(s)) ELSE s

RECURSIVE RStrip(_)
RStrip(s) == IF Len(s) > 0 /\ IsSpace(s[Len(s)]) THEN RStrip(SubSeq(s, 1, Len(s) - 1)) ELSE s

\* str.strip(), on a text whose white space at the ends is in atoms of its own
Strip(s) == Norm(RStrip(LStrip(s)))

\* the stdout_mod functions: _identity, one that wraps the output, and
\* lambda out, res: "sleeping [[time]]s -> [[stdout]]" if res.returncode == 0
\*                  else "sleeping [[time]]s -> timeout"
CallMod(mod, stdout, returncode) ==
    CASE mod = "identity" -> StrV(stdout)
      [] mod = "wrap" -> StrV(<<Lit("<")>> \o stdout \o <<Lit(">")>>)
      [] mod = "timeouts" ->
            IF returncode = 0
            THEN StrV(<<Lit("sleeping "), Key("time"), Lit("s -> "), Key("stdout")>>)
            ELSE StrV(<<Lit("sleeping "), Key("time"), Lit("s -> timeout")>>)

\* the resolved arguments of a run, one with an argument called stdout
RunArgs ==
    {<< [k |-> "time", v |-> StrV(<<Lit("4")>>)] >>,
     << [k |-> "stdout", v |-> StrV(<<Lit("old")>>)], [k |-> "time", v |-> StrV(<<Lit("4")>>)] >>}

StdoutMods == {"identity", "wrap", "timeouts"}

StdoutRes ==
    {None, Some(StrV(<<Key("time"), Lit(": "), Key("stdout")>>)), Some(FnV("timeouts"))}

\* what a command prints
Stdouts ==
    {<<>>, <<Lit(" ")>>, <<Lit("up")>>, <<Lit("\n"), Lit("up"), Lit(" ")>>,
     <<Lit("up"), Lit(" "), Key("time"), Lit("\n")>>}

\* stdout = res.stdout.strip(); output = mod(stdout) or mod(stdout, res)
OutputMod(args, stdout_mod, stdout_res, stdout, returncode) ==
    /\ input.fn = "none"
    /\ input' = [fn |-> "output", args |-> args, stdout_mod |-> stdout_mod,
                 stdout_res |-> stdout_res, stdout |-> stdout, returncode |-> returncode]
    /\ output' = [pc |-> "deblob", args |-> args, stdout |-> Strip(stdout),
                  out |-> CallMod(stdout_mod, Strip(stdout), returncode)]
    /\ UNCHANGED program

\* if mod != _identity: run.args["stdout"] = stdout; output = deblob(output, run.args)
OutputDeblob ==
    /\ input.fn = "output"
    /\ output.pc = "deblob"
    /\ output' = IF input.stdout_mod = "identity" THEN [output EXCEPT !.pc = "res"]
                 ELSE LET args == DictSet(output.args, "stdout", StrV(output.stdout))
                      IN  [output EXCEPT !.pc = "res", !.args = args,
                                         !.out = StrV(deblob(Some(output.out), args).s)]
    /\ UNCHANGED <<input, program>>

\* OutputRes with [[stdout]] standing for what the command printed
OutputResOfStdout ==
    /\ input.fn = "output"
    /\ output.pc = "res"
    /\ output' = IF input.stdout_res = None THEN [output EXCEPT !.pc = "line"]
                 ELSE LET args == DictSet(output.args, "stdout", StrV(output.stdout))
                      IN  [output EXCEPT !.pc = "line", !.args = args,
                                         !.out = StrV(deblob(input.stdout_res, args).s)]
    /\ UNCHANGED <<input, program>>

\* if run.stdout_res is not None: run.args["stdout"] = output;
\*                                output = deblob(run.stdout_res, run.args)
OutputRes ==
    /\ input.fn = "output"
    /\ output.pc = "res"
    /\ output' = IF input.stdout_res = None THEN [output EXCEPT !.pc = "line"]
                 ELSE LET args == DictSet(output.args, "stdout", output.out)
                      IN  [output EXCEPT !.pc = "line", !.args = args,
                                         !.out = StrV(deblob(input.stdout_res, args).s)]
    /\ UNCHANGED <<input, program>>

FnNext ==
    \/ \E ks \in KeyOrders : \E arguments_descr \in Assignments(ks, DescrValues) :
          Expand(arguments_descr)
    \/ \E blob \in Blobs, ks \in KeyOrders : \E args \in Assignments(ks, RawValues) :
          Deblob(blob, args)
    \/ \E ks \in KeyOrders, f \in {"all", "none", "ints"} :
          \E args \in Assignments(ks, RawValues) : BeginCombination(args, f)
    \/ ResolveKey
    \/ \E args \in RunArgs, stdout_mod \in StdoutMods, stdout_res \in StdoutRes,
          stdout \in Stdouts, returncode \in ReturnCodes :
          OutputMod(args, stdout_mod, stdout_res, stdout, returncode)
    \/ OutputDeblob
    \/ OutputRes

FnSpec == FnInit /\ [][FnNext]_vars

(***************************************************************************)
(* The properties                                                           *)
(***************************************************************************)
\* the tasks that write to path
Writers(path) == {i \in DOMAIN tasks : tasks[i].run.stdout_file = Some(path)}

StdoutPaths == {tasks[i].run.stdout_file[1] :
                    i \in {j \in DOMAIN tasks : tasks[j].run.stdout_file # None}}

\* the return code of task i is allowed: the list is empty, or holds the code
Accepted(i) ==
    LET allowed == tasks[i].run.allowed_return_codes
    IN  allowed = <<>> \/ \E j \in DOMAIN allowed : allowed[j] = tasks[i].rc

Settled(path) == \A i \in Writers(path) : tasks[i].pc = "done"

Configured(i) ==
    tasks[i].run.header_string # None \/ tasks[i].run.header_command # None

\* the lines of kind in the file, by position
LinesOf(path, kind) == {j \in DOMAIN files[path] : files[path][j].kind = kind}

\* the file is a header line and then one output line of every task in W
HeaderThenOutputs(path, W) ==
    /\ path \in DOMAIN files
    /\ Len(files[path]) = Cardinality(W) + 1
    /\ files[path][1].kind = "header"
    /\ files[path][1].by \in W
    /\ \A j \in 2..Len(files[path]) : files[path][j].kind = "output"
    /\ {files[path][j].by : j \in 2..Len(files[path])} = W

\* C1: when all the runs that write to one stdout_file have a header configured and
\* end with an allowed return code (the file was absent when they were declared,
\* or they would have been skipped), then once they are all done the file is the
\* header, once, as its first line, and then exactly one output line per run.
C1_HeaderOnce ==
    \A path \in StdoutPaths :
        (/\ Settled(path)
         /\ \A i \in Writers(path) : Configured(i) /\ Accepted(i))
        => HeaderThenOutputs(path, Writers(path))

\* C1 witness: two runs raced, the header is of the run queued second and the
\* outputs are not in the order of the queue
C1_Witness ==
    \E path \in StdoutPaths :
        /\ Settled(path)
        /\ Cardinality(Writers(path)) >= 2
        /\ \A i \in Writers(path) : Configured(i) /\ Accepted(i)
        /\ HeaderThenOutputs(path, Writers(path))
        /\ \E i \in Writers(path) : i < files[path][1].by
        /\ files[path][2].by > files[path][3].by

\* between SoftFileLock's acquire and release around a write
InWrite(i) == tasks[i].pc \in {"header_check", "header_write", "append_open", "append_write"}

\* the stdout files, as far as they are on disk
StdoutFiles(f) == [path \in DOMAIN f \cap StdoutPaths |-> f[path]]

\* C2: a worker between acquire and release holds the lock of its own path, no
\* two workers are in that section for the same path, a lock is held only by a
\* worker in that section (it is released when the write is over), and every
\* step that changes a stdout_file is taken by the worker holding its lock.
C2_WritesUnderLock ==
    /\ [](/\ \A i \in DOMAIN tasks :
               InWrite(i) => filename(i) \in DOMAIN locks /\ locks[filename(i)] = i
          /\ \A i, j \in DOMAIN tasks :
               InWrite(i) /\ InWrite(j) /\ i # j => filename(i) # filename(j)
          /\ \A path \in DOMAIN locks :
               /\ locks[path] \in DOMAIN tasks
               /\ InWrite(locks[path])
               /\ filename(locks[path]) = path)
    /\ [][\A path \in StdoutPaths :
            (/\ path \in DOMAIN files'
             /\ (path \notin DOMAIN files \/ files'[path] # files[path]))
            => /\ path \in DOMAIN locks
               /\ tasks'[locks[path]] # tasks[locks[path]]]_vars

\* C2 witness: one worker writes while another waits for the lock of the same path
C2_Witness ==
    \E i, j \in DOMAIN tasks :
        /\ tasks[i].pc = "append_write"
        /\ tasks[j].pc \in {"header_lock", "append_lock"}
        /\ filename(i) = filename(j)

\* C3: when none of the runs that write to one stdout_file has a header configured
\* and all end with an allowed return code, then once they are all done the file
\* holds exactly one output line per run and no header line.
C3_NoHeader ==
    \A path \in StdoutPaths :
        (/\ Settled(path)
         /\ \A i \in Writers(path) : ~Configured(i) /\ Accepted(i))
        => /\ path \in DOMAIN files
           /\ Len(files[path]) = Cardinality(Writers(path))
           /\ LinesOf(path, "header") = {}
           /\ {files[path][j].by : j \in DOMAIN files[path]} = Writers(path)

\* C3 witness: two runs without header wrote one file, the second one first
C3_Witness ==
    \E path \in StdoutPaths :
        /\ Settled(path)
        /\ \A i \in Writers(path) : ~Configured(i) /\ Accepted(i)
        /\ Len(files[path]) = 2
        /\ files[path][1].by > files[path][2].by

\* the tasks that ran the header command of path
RanHeaderCommand(path) == {i \in Writers(path) : tasks[i].header_run}

\* C4 as claimed: the header command is executed once per file in total.
C4_HeaderCommandOnce ==
    \A path \in StdoutPaths : Cardinality(RanHeaderCommand(path)) <= 1

\* C4 as amended: the header command is executed by the workers that found the
\* file absent at the test before the lock, each at most once and before it takes
\* the lock; the header line in the file is of the worker that created the file
\* and comes from that worker's own execution; and when all runs of a file have a
\* header_command and end with an allowed return code it was executed at least once.
C4_HeaderCommandPerWorker ==
    /\ \A i \in DOMAIN tasks :
         tasks[i].header_run
         => /\ tasks[i].run.header_command # None
            /\ tasks[i].pc \notin {"queued", "execute", "check"}
    /\ \A path \in StdoutPaths \cap DOMAIN files :
         \A j \in DOMAIN files[path] :
            (/\ files[path][j].kind = "header"
             /\ tasks[files[path][j].by].run.header_command # None)
            => tasks[files[path][j].by].header_run
    /\ \A path \in StdoutPaths :
         (/\ Settled(path)
          /\ \A i \in Writers(path) : tasks[i].run.header_command # None /\ Accepted(i))
         => RanHeaderCommand(path) # {}

\* C4 witness: two workers ran the header command of one file, one wrote the header
C4_Witness ==
    \E path \in StdoutPaths :
        /\ Settled(path)
        /\ Cardinality(RanHeaderCommand(path)) >= 2
        /\ HeaderThenOutputs(path, Writers(path))

\* the writers of path are the runs of one pool: one name in one call of run()
OnePool(path) ==
    \A i, j \in Writers(path) :
        tasks[i].run.name = tasks[j].run.name /\ tasks[i].call = tasks[j].call

\* every output line of the file comes after a header line at its top
HeaderBeforeOutputs(path) ==
    \A j \in DOMAIN files[path] :
        files[path][j].kind = "output" => j > 1 /\ files[path][1].kind = "header"

\* C5 as claimed: when at least one of the runs of one pool that write a file
\* has a header configured, the header is written before any output line.
C5_HeaderFirstIfAny ==
    \A path \in StdoutPaths \cap DOMAIN files :
        (OnePool(path) /\ \E i \in Writers(path) : Configured(i))
        => HeaderBeforeOutputs(path)

\* C5 as amended: when every run that writes a file has a header configured, the
\* header is written before any output line is appended, and it is the only
\* header line.
C5_HeaderFirstIfAll ==
    \A path \in StdoutPaths \cap DOMAIN files :
        (\A i \in Writers(path) : Configured(i))
        => /\ HeaderBeforeOutputs(path)
           /\ LinesOf(path, "header") \subseteq {1}

\* C5 witness: the first output line is of another run than the header
C5_Witness ==
    \E path \in StdoutPaths \cap DOMAIN files :
        /\ \A i \in Writers(path) : Configured(i)
        /\ Len(files[path]) >= 3
        /\ files[path][1].kind = "header"
        /\ files[path][2].by # files[path][1].by
        /\ files[path][2].by > files[path][3].by

\* a file the run names was on disk when the run was declared
OnDiskAtDeclaration(d) ==
    \/ d.run.creates_file # None /\ d.run.creates_file[1] \in d.on_disk
    \/ d.run.stdout_file # None /\ d.run.stdout_file[1] \in d.on_disk

Eligible(d) == d.run.is_selected /\ ~OnDiskAtDeclaration(d)

\* the declared runs of the name that are selected and not skipped, in order
RECURSIVE EligibleRuns(_, _)
EligibleRuns(name, e) ==
    IF e > Len(declared) THEN <<>>
    ELSE (IF declared[e].run.name = name /\ Eligible(declared[e])
          THEN <<declared[e].run>> ELSE <<>>) \o EligibleRuns(name, e + 1)

\* C6: the list of a name holds exactly the declared runs of that name that are
\* selected and had neither creates_file nor stdout_file on disk when declared,
\* in order; the others are not in it, those with a file on disk are counted as
\* skipped, and run() hands only runs of these lists to the pool.
C6_SelectedAndNotSkipped ==
    /\ \A e \in DOMAIN declared : DictHas(runs_by_name, declared[e].run.name)
    /\ \A k \in DOMAIN runs_by_name :
         /\ runs_by_name[k].v = EligibleRuns(runs_by_name[k].k, 1)
         /\ DictGet(counts_by_name, runs_by_name[k].k)[2] =
               Cardinality({e \in DOMAIN declared :
                               /\ declared[e].run.name = runs_by_name[k].k
                               /\ OnDiskAtDeclaration(declared[e])})
    /\ main \in {"loop", "wait"}
       => \A i \in DOMAIN tasks :
             tasks[i].call = calls.runs
             => \E e \in DOMAIN declared :
                   declared[e].run = tasks[i].run /\ Eligible(declared[e])

\* C6 witness: run() is at work, a run named on the command line is skipped and
\* in no list, another one is in its list and handed to the pool
C6_Witness ==
    /\ main = "wait"
    /\ \E e \in DOMAIN declared :
         /\ declared[e].run.name \in argv
         /\ declared[e].run.is_selected
         /\ OnDiskAtDeclaration(declared[e])
         /\ ~InSeq(declared[e].run, DictGet(runs_by_name, declared[e].run.name))
    /\ \E e \in DOMAIN declared, i \in DOMAIN tasks :
         /\ Eligible(declared[e])
         /\ tasks[i].run = declared[e].run
         /\ tasks[i].call = calls.runs

OutputLines(path, i) ==
    {j \in DOMAIN files[path] : files[path][j].kind = "output" /\ files[path][j].by = i}

\* C8: a run that ends with a code outside its non-empty list of allowed codes
\* gets a warning and writes nothing: it runs no header command, no line of any
\* file is its, and a file only such runs name is not created; its siblings each
\* still append their one line; with the empty list every code is accepted and
\* the run appends its line; only such runs get the warning.
C8_ReturnCodePolicy ==
    /\ \A i \in DOMAIN tasks :
         (tasks[i].pc = "done" /\ ~Accepted(i))
         => /\ [warning |-> "unexpected return code", task |-> i] \in warnings
            /\ ~tasks[i].header_run
            /\ \A path \in DOMAIN files :
                 \A j \in DOMAIN files[path] : files[path][j].by # i
    /\ \A i \in DOMAIN tasks :
         [warning |-> "unexpected return code", task |-> i] \in warnings
         => tasks[i].pc = "done" /\ ~Accepted(i)
    /\ \A path \in StdoutPaths :
         Settled(path)
         => IF \A i \in Writers(path) : ~Accepted(i)
            THEN path \notin DOMAIN files
            ELSE \A i \in Writers(path) :
                    Accepted(i) => Cardinality(OutputLines(path, i)) = 1
    /\ \A i \in DOMAIN tasks :
         (/\ tasks[i].pc = "done"
          /\ tasks[i].run.allowed_return_codes = <<>>
          /\ tasks[i].run.stdout_file # None)
         => Cardinality(OutputLines(filename(i), i)) = 1

\* C8 witness: of three runs of one file one was refused, one wrote its line and
\* one with the empty list wrote its line after a code other than 0
C8_Witness ==
    \E path \in StdoutPaths :
        /\ Settled(path)
        /\ \E i, j, k \in Writers(path) :
             /\ ~Accepted(i)
             /\ Accepted(j) /\ tasks[j].run.allowed_return_codes # <<>>
             /\ tasks[k].run.allowed_return_codes = <<>> /\ tasks[k].rc # 0
             /\ OutputLines(path, i) = {}
             /\ Cardinality(OutputLines(path, j)) = 1
             /\ Cardinality(OutputLines(path, k)) = 1

\* C9 as claimed: no run of a later name of a call of run() has started before
\* every run of the names before it is done.
C9_NameBarrier ==
    \A i, j \in DOMAIN tasks :
        (/\ i < j
         /\ tasks[i].call = tasks[j].call
         /\ tasks[i].run.name # tasks[j].run.name
         /\ tasks[j].pc # "queued")
        => tasks[i].pc = "done"

\* C10 as claimed: after the interrupt during the runs of a name, no run of
\* that name that has not started is started.
C10_NoStartAfterInterrupt ==
    [][\A i \in DOMAIN tasks :
          (/\ tasks[i].pc = "queued"
           /\ [warning |-> "aborted during experiment", name |-> tasks[i].run.name,
               call |-> tasks[i].call] \in warnings)
          => tasks'[i].pc = "queued"]_vars

\* a step in which run() returns: from the dry run, or from the end of the loop
ReturnsFromRun == main' = "declare" /\ (main = "loop" \/ calls'.runs # calls.runs)

\* C11: when run() returns (after the dry run, after the loop, also after an
\* interrupt was handled) the lists of runs and the counters are empty, the only
\* group is the empty default group and it is the active one; and no run is
\* handed to the pool twice: the tasks of all calls of run() together are at most
\* as many as the runs add() made.
C11_ResetAfterRun ==
    /\ [](Len(tasks) <= calls.made)
    /\ [][ReturnsFromRun
          => /\ runs_by_name' = <<>>
             /\ counts_by_name' = <<>>
             /\ groups' = << [k |-> "ungrouped", v |-> <<>>] >>
             /\ state_group' = "ungrouped"]_vars

\* C11 witness: run() returned twice, once after an interrupt, both calls handed
\* runs to the pool, and the registry is empty
C11_Witness ==
    /\ main = "declare"
    /\ calls.runs = 2
    /\ calls.interrupts = 1
    /\ \E i, j \in DOMAIN tasks : tasks[i].call = 1 /\ tasks[j].call = 2
    /\ runs_by_name = <<>>
    /\ counts_by_name = <<>>
    /\ groups = << [k |-> "ungrouped", v |-> <<>>] >>
    /\ state_group = "ungrouped"

\* the names of the declared runs, in the order of their first declaration
RECURSIVE DeclaredNames(_, _)
DeclaredNames(e, seen) ==
    IF e > Len(declared) THEN <<>>
    ELSE IF declared[e].run.name \in seen THEN DeclaredNames(e + 1, seen)
    ELSE <<declared[e].run.name>> \o DeclaredNames(e + 1, seen \cup {declared[e].run.name})

\* the commands of the selected, not skipped runs of the names, name by name
RECURSIVE CommandsOf(_)
CommandsOf(names) ==
    IF Len(names) = 0 THEN <<>>
    ELSE LET runs == EligibleRuns(names[1], 1)
         IN  [j \in DOMAIN runs |-> runs[j].command] \o CommandsOf(Tail(names))

\* C12: with dry_run on the command line no step changes a file, a lock or the
\* pool (no command is executed, no task exists), and run() prints exactly the
\* commands of the selected, not skipped runs, name by name in the order the
\* names were declared, and returns.
C12_DryMode ==
    /\ []("dry_run" \in argv => tasks = <<>> /\ DOMAIN locks = {})
    /\ []["dry_run" \in argv
          => /\ files' = files
             /\ calls'.runs # calls.runs
                => /\ printed' = printed \o CommandsOf(DeclaredNames(1, {}))
                   /\ main' = "declare"]_vars

\* C12 witness: a dry run printed the commands of three runs of two names
C12_Witness ==
    /\ "dry_run" \in argv
    /\ calls.runs >= 1
    /\ Len(printed) = 3
    /\ printed[1] # printed[3]
    /\ tasks = <<>>

\* C14: a call of add() whose combinations_filter refuses every combination
\* leaves the lists of runs, the counters, the groups and the active group as
\* they are, and declares no run.
C14_FilterFrame ==
    [][\A exp \in Experiments :
          (exp.combinations_filter = "none" /\ calls'.adds # calls.adds /\ add(exp))
          => UNCHANGED <<registry, declared>>]_vars

\* C14 witness: add() was called, its two combinations were refused, and the
\* registry is as _State() made it
C14_Witness ==
    /\ calls.adds = 1
    /\ calls.made = 2
    /\ calls.runs = 0
    /\ declared = <<>>
    /\ runs_by_name = <<>>
    /\ counts_by_name = <<>>
    /\ \A g \in DOMAIN groups : groups[g].v = <<>>

\* C16: run() hands every run that was selected and not skipped when it was
\* declared to the pool, whatever is on disk by then; a worker starts a queued
\* run without looking at its files; a worker that finds the stdout_file at its
\* test runs no header command and goes on to append; an output line is put at
\* the end of the file; a header line is only ever the first line of a file; and
\* every run that is done with an allowed return code has its one output line.
C16_SkipFixedAtDeclaration ==
    /\ [](\A path \in DOMAIN files : LinesOf(path, "header") \subseteq {1})
    /\ [](\A i \in DOMAIN tasks :
            (tasks[i].pc = "done" /\ Accepted(i) /\ tasks[i].run.stdout_file # None)
            => /\ filename(i) \in DOMAIN files
               /\ Cardinality(OutputLines(filename(i), i)) = 1)
    /\ [][/\ (main = "loop" /\ main' = "wait")
             => LET runs == EligibleRuns(runs_by_name[pos].k, 1)
                IN  tasks' = tasks \o [j \in DOMAIN runs |-> Task(runs[j])]
          /\ \A i \in DOMAIN tasks :
               /\ (tasks[i].pc = "queued" /\ tasks'[i].pc # "queued")
                  => tasks'[i].pc = "execute"
               /\ (tasks[i].pc = "check" /\ isfile(filename(i)) /\ tasks'[i] # tasks[i])
                  => tasks'[i].pc = "append_lock" /\ ~tasks'[i].header_run
               /\ (tasks[i].pc = "header_check" /\ isfile(filename(i)) /\ tasks'[i] # tasks[i])
                  => tasks'[i].pc = "append_lock" /\ files' = files
               /\ (tasks[i].pc = "append_write" /\ tasks'[i].pc = "done")
                  => LET old == files[filename(i)]
                         new == files'[filename(i)]
                     IN  /\ Len(new) = Len(old) + 1
                         /\ SubSeq(new, 1, Len(old)) = old
                         /\ new[Len(new)].kind = "output"
                         /\ new[Len(new)].by = i]_vars

\* C16 witness: a run with a header, not skipped when it was declared, found its
\* file written by a run of an earlier name: its line is the last one, after the
\* other's, and the file has no header
C16_Witness ==
    \E i \in DOMAIN tasks :
        /\ tasks[i].pc = "done"
        /\ tasks[i].run.stdout_file # None
        /\ Configured(i)
        /\ filename(i) \in DOMAIN files
        /\ LET lines == files[filename(i)]
           IN  /\ Len(lines) >= 2
               /\ LinesOf(filename(i), "header") = {}
               /\ lines[Len(lines)].by = i
               /\ tasks[lines[1].by].run.name # tasks[i].run.name
               /\ tasks[lines[1].by].call = tasks[i].call

\* the declared runs of the name
DeclaredAs(name) == {e \in DOMAIN declared : declared[e].run.name = name}

\* C17: the counters of a name count its declared runs, selected or not: those
\* with no file on disk at declaration as done, the others as skipped, so the two
\* add up to the number of declared runs of the name; the list of the name holds
\* the selected ones among those counted as done, so it is never longer than done.
C17_Counters ==
    /\ DictKeys(counts_by_name) = {declared[e].run.name : e \in DOMAIN declared}
    /\ DictKeys(runs_by_name) = DictKeys(counts_by_name)
    /\ \A k \in DOMAIN counts_by_name :
         LET n     == counts_by_name[k].k
             count == counts_by_name[k].v
             done  == {e \in DeclaredAs(n) : ~OnDiskAtDeclaration(declared[e])}
         IN  /\ count[1] = Cardinality(done)
             /\ count[2] = Cardinality(DeclaredAs(n) \ done)
             /\ count[1] + count[2] = Cardinality(DeclaredAs(n))
             /\ Len(DictGet(runs_by_name, n)) =
                   Cardinality({e \in done : declared[e].run.is_selected})
             /\ Len(DictGet(runs_by_name, n)) <= count[1]

\* C17 witness: runs that are not selected are counted as done and not in the
\* list, and a run is counted as skipped
C17_Witness ==
    /\ \E k \in DOMAIN counts_by_name :
         /\ counts_by_name[k].v[1] = 2
         /\ DictGet(runs_by_name, counts_by_name[k].k) = <<>>
    /\ \E k \in DOMAIN counts_by_name : counts_by_name[k].v[2] = 1

\* C18 as claimed: the declared runs of one name all have the same selection flag.
C18_SelectionPerName ==
    \A e1, e2 \in DOMAIN declared :
        declared[e1].run.name = declared[e2].run.name
        => declared[e1].run.is_selected = declared[e2].run.is_selected

\* C18 as amended: the flag is decided for each run when it is declared; with
\* the name on the command line every run of the name is selected; otherwise the
\* flag never goes back: once a run of the name is selected, the runs of the
\* name declared after it are selected, while the ones declared before it under
\* groups that are not on the command line stay unselected.
C18_SelectionNeverRevoked ==
    \A e1, e2 \in DOMAIN declared :
        declared[e1].run.name = declared[e2].run.name
        => /\ declared[e1].run.name \in argv => declared[e1].run.is_selected
           /\ (e1 < e2 /\ declared[e1].run.is_selected) => declared[e2].run.is_selected
           /\ (e1 < e2 /\ ~declared[e2].run.is_selected)
              => declared[e2].member_of \cap argv = {}

\* C18 witness: two runs of one name, the first not selected, the second, declared
\* under another group, selected
C18_Witness ==
    \E e1, e2 \in DOMAIN declared :
        /\ e1 < e2
        /\ declared[e1].run.name = declared[e2].run.name
        /\ ~declared[e1].run.is_selected
        /\ declared[e2].run.is_selected
        /\ declared[e1].group # declared[e2].group

\* the number of combinations of the lists after the first i
RECURSIVE Weight(_, _)
Weight(lists, i) == IF i >= Len(lists) THEN 1 ELSE Len(lists[i + 1]) * Weight(lists, i + 1)

\* C13: arguments_set has one combination per tuple of the product of the lists
\* (a value that is no list counts as a list of one), as many as the product of
\* their lengths, in lexicographic order of the positions in the lists with the
\* keys in the order of arguments_descr (the last key varies fastest), equal
\* values in a list giving equal combinations that are all kept.
C13_CartesianExpansion ==
    input.fn = "product"
    => LET descr == input.arguments_descr
           lists == [i \in DOMAIN descr |->
                        IF descr[i].v.ty = "list" THEN descr[i].v.l ELSE <<descr[i].v>>]
           total == Weight(lists, 0)
       IN  /\ Len(output) = total
           /\ \A c \in 1..total :
                /\ Len(output[c]) = Len(descr)
                /\ \A i \in DOMAIN descr :
                     output[c][i] =
                        [k |-> descr[i].k,
                         v |-> lists[i][(((c - 1) \div Weight(lists, i)) % Len(lists[i])) + 1]]

\* C13 witness: three keys, a list with one value twice, a value that is no list
\* and a list of two values give four combinations, the first and the third equal
C13_Witness ==
    /\ input.fn = "product"
    /\ Len(input.arguments_descr) = 3
    /\ \E i \in DOMAIN input.arguments_descr : input.arguments_descr[i].v.ty = "int"
    /\ Len(output) = 4
    /\ output[1] = output[3]
    /\ output[1] # output[2]

\* every wildcard with a value replaced by str() of the value, at once
RECURSIVE SubstAll(_, _)
SubstAll(s, args) ==
    IF Len(s) = 0 THEN <<>>
    ELSE (IF s[1].t = "key" /\ DictHas(args, s[1].v)
          THEN PyStr(DictGet(args, s[1].v)) ELSE <<s[1]>>) \o SubstAll(Tail(s), args)

\* C15 as claimed: deblob never raises; None gives None; a blob without wildcard
\* gives its str() and no warning; the warnings are for exactly the wildcards
\* without a value; and (the values holding no wildcards themselves) the result
\* is the text with every wildcard that has a value replaced by the textual form
\* of the value, be it a string or a raw value, the others left in place.
C15_BlobSubstitution ==
    input.fn = "deblob"
    => IF input.blob = None THEN output.st = "none"
       ELSE LET called == IF input.blob[1].ty = "fn"
                          THEN CallBlob(input.blob[1].f, input.args) ELSE input.blob[1]
                text   == PyStr(called)
                keys   == FindKeys(text)
                given  == {keys[j] : j \in {m \in DOMAIN keys : DictHas(input.args, keys[m])}}
            IN  /\ output.st = "ok"
                /\ {output.warn[j] : j \in DOMAIN output.warn} =
                      {keys[j] : j \in DOMAIN keys} \ given
                /\ keys = <<>> => output.s = text /\ output.warn = <<>>
                /\ (\A key \in given : FindKeys(PyStr(DictGet(input.args, key))) = <<>>)
                   => output.s = Norm(SubstAll(text, input.args))

\* the combination as it is when key j is resolved: the keys before it as they
\* are in the end, key j and the keys after it raw
Mixed(j) == [m \in DOMAIN input.args |-> IF m < j THEN output.args[m] ELSE input.args[m]]

\* C19: the filter gets the raw combination, and a refused combination is not
\* resolved; the keys are resolved one at a time in their order: the keys before
\* the next one hold strings, each the deblob of its raw value against the
\* combination with the keys before it resolved and all others raw, and the next
\* key and the keys after it hold their raw values; the whole is what add()'s
\* loop computes.
C19_SequentialResolution ==
    input.fn = "resolve"
    => /\ output.saw = input.args
       /\ ~output.passed => output.args = input.args /\ output.i = 1
       /\ \A j \in DOMAIN output.args :
            IF j < output.i
            THEN output.args[j] =
                    [k |-> input.args[j].k,
                     v |-> StrV(deblob(Some(input.args[j].v), Mixed(j)).s)]
            ELSE output.args[j] = input.args[j]
       /\ output.st = "TypeError"
          => /\ deblob(Some(input.args[output.i].v), Mixed(output.i)).st = "TypeError"
             /\ ResolveArgs(input.args, 1, <<>>).st = "TypeError"
       /\ (output.passed /\ output.i > Len(output.args))
          => ResolveArgs(input.args, 1, <<>>) \in
                {[st |-> "ok", args |-> output.args, warn |-> w] :
                    w \in {ResolveArgs(input.args, 1, <<>>).warn}}

\* C19 witness: the first key took the raw value of the second, the third the
\* resolved value of the first
C19_Witness ==
    /\ input.fn = "resolve"
    /\ input.args = << [k |-> "a", v |-> StrV(<<Key("b")>>)],
                       [k |-> "b", v |-> StrV(<<Lit("x")>>)],
                       [k |-> "c", v |-> StrV(<<Key("a")>>)] >>
    /\ output.i = 4
    /\ output.args[1].v = StrV(<<Lit("x")>>)
    /\ output.args[3].v = StrV(<<Lit("x")>>)

\* C20: the line is the output of the command, stripped, given to stdout_mod;
\* with a stdout_mod other than the default the result is deblobbed against the
\* arguments of the run with stdout standing for the stripped output; with a
\* stdout_res that is deblobbed against the arguments with stdout standing for
\* the result so far, and replaces it; with neither the line is the stripped
\* output as it is.
C20_OutputPipeline ==
    (input.fn = "output" /\ output.pc \in {"res", "line"})
    => LET trimmed == Strip(input.stdout)
           o1 == CallMod(input.stdout_mod, trimmed, input.returncode)
           o2 == IF input.stdout_mod = "identity" THEN o1
                 ELSE StrV(deblob(Some(o1), DictSet(input.args, "stdout", StrV(trimmed))).s)
           o3 == IF input.stdout_res = None THEN o2
                 ELSE StrV(deblob(input.stdout_res, DictSet(input.args, "stdout", o2)).s)
       IN  /\ output.stdout = trimmed
           /\ Len(trimmed) > 0 => ~IsSpace(trimmed[1]) /\ ~IsSpace(trimmed[Len(trimmed)])
           /\ output.pc = "res" => output.out = o2
           /\ output.pc = "line" => output.out = o3
           /\ (output.pc = "line" /\ input.stdout_mod = "identity" /\ input.stdout_res = None)
              => output.out = StrV(trimmed)

\* C20 witness: the output " up " of the command, wrapped by stdout_mod, put in
\* the place of [[stdout]] in stdout_res
C20_Witness ==
    /\ input.fn = "output"
    /\ output.pc = "line"
    /\ input.stdout_mod = "wrap"
    /\ input.stdout = <<Lit("\n"), Lit("up"), Lit(" ")>>
    /\ input.stdout_res = Some(StrV(<<Key("time"), Lit(": "), Key("stdout")>>))
    /\ Render(output.out.s) = "4: <up>"

\* the runs handed to the pool in call c of run(), in order
RECURSIVE RunsOfCall(_, _)
RunsOfCall(c, i) ==
    IF i > Len(tasks) THEN <<>>
    ELSE (IF tasks[i].call = c THEN <<tasks[i].run>> ELSE <<>>) \o RunsOfCall(c, i + 1)

\* the selected, not skipped runs of the names, name by name
RECURSIVE RunsOf(_)
RunsOf(names) ==
    IF Len(names) = 0 THEN <<>> ELSE EligibleRuns(names[1], 1) \o RunsOf(Tail(names))

\* call c of run() was interrupted
Interrupted(c) ==
    \E w \in warnings : w.warning = "aborted during experiment" /\ w.call = c

\* C21: when a call of run() that was not interrupted returns from its loop, the
\* runs it handed to the pool are the selected, not skipped runs that were
\* declared, each once, and all are done; a task is never queued again, its
\* command is executed in one step that is never taken again, also after an
\* unexpected return code, and a task that is done stays as it is; no other
\* run gets a task.
C21_ExactlyOnce ==
    [][/\ (main = "loop" /\ main' = "declare" /\ ~Interrupted(calls.runs))
          => /\ RunsOfCall(calls.runs, 1) = RunsOf(DeclaredNames(1, {}))
             /\ \A i \in DOMAIN tasks : tasks[i].call = calls.runs => tasks[i].pc = "done"
       /\ \A i \in DOMAIN tasks :
            /\ i \in DOMAIN tasks'
            /\ tasks'[i].run = tasks[i].run
            /\ tasks[i].pc # "queued" => tasks'[i].pc # "queued"
            /\ tasks[i].pc \notin {"queued", "execute"} => tasks'[i].pc # "execute"
            /\ (tasks[i].pc = "execute" /\ tasks'[i] # tasks[i])
               => tasks'[i].pc \in {"done", "check"}
            /\ tasks[i].pc = "done" => tasks'[i] = tasks[i]]_vars

\* C21 witness: a call of run() without interrupt has returned, its three runs of
\* two names are done, one of them after a return code that is not allowed
C21_Witness ==
    /\ main = "declare"
    /\ calls.runs = 1
    /\ calls.interrupts = 0
    /\ Len(tasks) = 3
    /\ \A i \in DOMAIN tasks : tasks[i].pc = "done"
    /\ \E i \in DOMAIN tasks : ~Accepted(i)
    /\ \E i, j \in DOMAIN tasks : tasks[i].run.name # tasks[j].run.name

\* C22: no step takes a file away or changes or removes a line it holds: the
\* lines of a file after a step are its lines before the step, with at most new
\* lines after them.
C22_AppendOnly ==
    [][\A path \in DOMAIN files :
          /\ path \in DOMAIN files'
          /\ Len(files'[path]) >= Len(files[path])
          /\ SubSeq(files'[path], 1, Len(files[path])) = files[path]]_vars

\* C22 witness: a worker that found the file absent before the lock holds the
\* lock for its second test, and the file by now has a header and an output line
C22_Witness ==
    \E i \in DOMAIN tasks :
        /\ tasks[i].pc = "header_check"
        /\ isfile(filename(i))
        /\ Len(files[filename(i)]) >= 2
        /\ files[filename(i)][1].kind = "header"

\* the locks task i holds
Held(i) == {path \in DOMAIN locks : locks[path] = i}

\* C23: a worker that waits for a lock holds none, and no worker holds two;
\* with the processes scheduled fairly, a worker that waits for the lock of its
\* file gets it, every run handed to the pool gets done, and run() returns.
C23_Termination ==
    /\ [](\A i \in DOMAIN tasks :
            /\ tasks[i].pc \in {"header_lock", "append_lock"} => Held(i) = {}
            /\ Cardinality(Held(i)) <= 1)
    /\ \A i \in 1..MaxRuns :
         (i \in DOMAIN tasks /\ tasks[i].pc \in {"header_lock", "append_lock"})
         ~> (i \in DOMAIN tasks /\ tasks[i].pc \in {"header_check", "append_open"})
    /\ \A i \in 1..MaxRuns :
         (i \in DOMAIN tasks) ~> (i \in DOMAIN tasks /\ tasks[i].pc = "done")
    /\ (main \in {"loop", "wait"}) ~> (main = "declare")

\* C23 witness: a worker waits for the lock of the file another worker holds
\* while a third run is still queued and run() waits
C23_Witness ==
    /\ main = "wait"
    /\ \E i, j, k \in DOMAIN tasks :
         /\ tasks[i].pc \in {"header_lock", "append_lock"}
         /\ Held(j) = {filename(i)}
         /\ tasks[k].pc = "queued"

====
